---------------------------- MODULE Spec2Model ----------------------------
(***************************************************************************)
(* HabitCards API backend (src/backend/main.py): the API-key gate, the     *)
(* key-value store adapter, the JSON collection store built on it, the     *)
(* generated CRUD routes and the AI parse endpoint.                        *)
(*                                                                         *)
(* A request is handled by a thread of its own.  A handler's steps that    *)
(* touch only its own locals are taken together with the next access to    *)
(* the shared store, so db_add and db_delete are two steps each: the read  *)
(* of the blob (db_items) and the write of the blob (db_set).  Every other *)
(* handler reads the store at most once and is one step.                   *)
(*                                                                         *)
(* JSON values: an object is a function from its keys to its values, an    *)
(* array a sequence, a string a string.  A serialized blob (the str that   *)
(* json.dumps returns) is a sequence of tokens.                            *)
(***************************************************************************)
EXTENDS Naturals, Sequences, FiniteSets, TLC

\* ------------------------------------------------------------- bounds
\* POST requests that pass the gate, over a whole run.
MaxPosts == 2
\* DELETE requests that pass the gate, over a whole run.
MaxDeletes == 1
\* Requests that may be between their read and their write at once.
MaxInflight == 2
\* POST and DELETE requests let through where the gate is what is checked.
MaxGateWrites == 2

\* ---------------------------------------------------------- constants
Collections == {"alarms", "meetings", "moods", "inbox", "schedule", "profiles"}

\* os.environ.get("HABITCARDS_API_KEY", "habitcards-dev-key"): the configured
\* secret.  The code only compares it for equality, so one value stands for any
\* secret; a secret is taken to be a non-empty string.
API_KEY == "habitcards-dev-key"

\* What request.headers.get("X-API-KEY", "") can give: "" is the missing header.
HeaderValues == {API_KEY, "wrong-key", ""}

\* Ids a client makes up; it may also use any id the server has returned.
ClientIds == {"a"}

\* str(uuid.uuid4()) of the n-th call: a fresh value each call.
uuid4(n) == "uuid-" \o ToString(n)

\* datetime.now().isoformat() at clock reading n.
isoformat(n) == "2025-01-01T00:00:0" \o ToString(n)

Generated(n) == {uuid4(k) : k \in 1..n}

\* ------------------------------------------------------ JSON objects
EmptyDict == [k \in {} |-> ""]

\* d[k] = v of a Python dict.
DictSet(d, k, v) == [x \in (DOMAIN d) \cup {k} |-> IF x = k THEN v ELSE d[x]]

\* d.get(k, default)
DictGet(d, k, default) == IF k \in DOMAIN d THEN d[k] ELSE default

\* The order json.dumps writes an item's keys in.
KeyOrder == <<"id", "label", "createdAt">>

RECURSIVE dump_members(_, _)
dump_members(d, i) ==
    IF i > Len(KeyOrder) THEN <<>>
    ELSE (IF KeyOrder[i] \in DOMAIN d THEN <<KeyOrder[i], d[KeyOrder[i]]>> ELSE <<>>)
         \o dump_members(d, i + 1)

RECURSIVE dump_elements(_)
dump_elements(items) ==
    IF items = <<>> THEN <<>>
    ELSE <<"{">> \o dump_members(Head(items), 1) \o <<"}">> \o dump_elements(Tail(items))

\* json.dumps of a list of objects: the serialized text, as tokens.
json_dumps(items) == <<"[">> \o dump_elements(items) \o <<"]">>

RECURSIVE parse_members(_, _, _)
parse_members(toks, i, d) ==
    IF toks[i] = "}" THEN [val |-> d, next |-> i + 1]
    ELSE parse_members(toks, i + 2, DictSet(d, toks[i], toks[i + 1]))

RECURSIVE parse_elements(_, _, _)
parse_elements(toks, i, acc) ==
    IF toks[i] = "]" THEN acc
    ELSE LET o == parse_members(toks, i + 1, EmptyDict)
         IN  parse_elements(toks, o.next, Append(acc, o.val))

\* json.loads of a serialized list of objects.
json_loads(toks) == parse_elements(toks, 2, <<>>)

\* ------------------------------------------------------------- state
VARIABLES
    USE_REPLIT_DB,  \* TRUE: Replit DB, FALSE: the in-memory dict; fixed at start
    replit_db,      \* the store: a mapping from the keys written so far to blobs
    inflight,       \* the frames of the db_add / db_delete calls between read and write
    resp,           \* the response sent last: [status, body]
    trace,          \* the provider selections and calls made for that response
    clock,          \* datetime.now() calls so far
    uuids,          \* uuid.uuid4() calls so far
    deletes,        \* DELETE requests let through so far
    served,         \* history: the frame whose write sent resp, and whether it was stale
    posted          \* history: the items that POSTs without an id have returned

vars == <<USE_REPLIT_DB, replit_db, inflight, resp, trace, clock, uuids, deletes,
          served, posted>>

\* Python's None as a handler's return value (no response yet).
NoResponse == [status |-> 0, body |-> EmptyDict]

\* jsonify(body), status
Response(status, body) == [status |-> status, body |-> body]

\* ------------------------------------------------------------- storage
\* json text "[]"
DefaultBlob == <<"[", "]">>

\* db_get(key, "[]").  None and the empty str are the empty token sequence.
db_get(key, default) ==
    IF USE_REPLIT_DB
    THEN LET val == IF key \in DOMAIN replit_db THEN replit_db[key] ELSE <<>>
         IN  IF val # <<>> THEN val ELSE default
    ELSE IF key \in DOMAIN replit_db THEN replit_db[key] ELSE default

\* db_set with the collection's key written as a literal.
db_set_fixed_key(key, value) ==
    [k \in (DOMAIN replit_db) \cup {"alarms"} |->
        IF k = "alarms" THEN value ELSE replit_db[k]]

\* The store after db_set(key, value).
db_set(key, value) ==
    [k \in (DOMAIN replit_db) \cup {key} |-> IF k = key THEN value ELSE replit_db[k]]

db_items(prefix) == json_loads(db_get(prefix, DefaultBlob))

\* i.get("id") == item_id
id_is(i, item_id) == "id" \in DOMAIN i /\ i["id"] = item_id

\* db_add: items.append(item)
db_add_items(items, item) == Append(items, item)

\* db_delete with the comparison turned around (== for !=).
db_delete_items_inverted(items, item_id) ==
    SelectSeq(items, LAMBDA i : id_is(i, item_id))

\* db_delete that removes the first match only (items.remove instead of a filter).
RECURSIVE db_delete_items_first(_, _)
db_delete_items_first(items, item_id) ==
    IF items = <<>> THEN <<>>
    ELSE IF id_is(Head(items), item_id) THEN Tail(items)
    ELSE <<Head(items)>> \o db_delete_items_first(Tail(items), item_id)

\* db_delete: [i for i in items if i.get("id") != item_id]
db_delete_items(items, item_id) == SelectSeq(items, LAMBDA i : ~id_is(i, item_id))

\* get_item that keeps the last match (a loop that does not stop at the first).
RECURSIVE find_item_last(_, _)
find_item_last(items, item_id) ==
    IF items = <<>> THEN EmptyDict
    ELSE IF id_is(items[Len(items)], item_id) THEN items[Len(items)]
    ELSE find_item_last(SubSeq(items, 1, Len(items) - 1), item_id)

\* next((i for i in items if i.get("id") == item_id), None); None is EmptyDict,
\* which `not item` treats as it treats None.
RECURSIVE find_item(_, _)
find_item(items, item_id) ==
    IF items = <<>> THEN EmptyDict
    ELSE IF id_is(Head(items), item_id) THEN Head(items)
    ELSE find_item(Tail(items), item_id)

\* ---------------------------------------------------------------- auth
\* check_auth that tests the key only when the header is there.
check_auth_missing_ok(key) ==
    IF key # "" /\ key # API_KEY THEN Response(401, [error |-> "Unauthorized"])
    ELSE NoResponse

check_auth(key) ==
    IF key # API_KEY THEN Response(401, [error |-> "Unauthorized"]) ELSE NoResponse

\* ---------------------------------------------------------- AI parsing
\* get_ai_client: the provider whose client can be constructed, OpenAI first.
get_ai_client(openai_ok, anthropic_ok) ==
    IF openai_ok THEN "openai" ELSE IF anthropic_ok THEN "anthropic" ELSE "None"

base ==
    "You are a voice command parser for a personal assistant app. Parse the user's voice input into structured JSON. Be creative and helpful. Fill in reasonable defaults for anything not mentioned."

schemas ==
    [alarm |-> "Return JSON: {\"label\":\"alarm name\",\"time\":\"HH:mm\",\"icon\":\"SF Symbol\",\"routine\":[{\"title\":\"step\",\"duration\":\"e.g. 5 min\",\"icon\":\"SF Symbol\"}]}",
     meeting |-> "Return JSON: {\"title\":\"name\",\"date\":\"day\",\"time\":\"h:mm a\",\"icon\":\"SF Symbol\",\"checklist\":[{\"title\":\"step\",\"duration\":\"time\",\"icon\":\"SF Symbol\"}],\"notes\":\"context\"}",
     mood |-> "Return JSON: {\"mood\":\"one word\",\"level\":0.0to1.0,\"trigger\":\"cause\",\"suggestion\":\"action\"}",
     inbox |-> "Return JSON: {\"source\":\"Email/Slack/etc\",\"sourceIcon\":\"SF Symbol\",\"priority\":\"High/Medium/Low\",\"actionItems\":[{\"title\":\"task\",\"duration\":\"time\",\"icon\":\"SF Symbol\"}]}",
     schedule |-> "Return JSON: {\"blocks\":[{\"title\":\"activity\",\"startTime\":\"h:mm a\",\"endTime\":\"h:mm a\",\"duration\":\"e.g. 1h\",\"icon\":\"SF Symbol\",\"colorName\":\"blue/green/purple/orange/teal/red\"}]}"]

\* build_prompt without the fallback: schemas.get(mode), None for an unknown mode.
build_prompt_no_fallback(mode, text) ==
    LET schema == DictGet(schemas, mode, "None")
    IN  base \o "\n\n" \o schema \o "\n\nVoice input: \"" \o text \o "\""

build_prompt(mode, text) ==
    LET schema == DictGet(schemas, mode, schemas["alarm"])
    IN  base \o "\n\n" \o schema \o "\n\nVoice input: \"" \o text \o "\""

\* What a provider's API call can do: raise, or return a text.
ProviderReplies ==
    {[raises |-> TRUE,  text |-> "Connection error."],
     [raises |-> FALSE, text |-> "{\"mood\": \"calm\"}"],
     [raises |-> FALSE, text |-> "Sure! Here is the JSON you asked for"]}

\* json.loads of a provider's text: the texts of ProviderReplies that are JSON,
\* with their values; any other text raises JSONDecodeError.
JsonTexts == [t \in {"{\"mood\": \"calm\"}"} |-> [mood |-> "calm"]]

provider_loads(text) ==
    IF text \in DOMAIN JsonTexts
    THEN [ok |-> TRUE, value |-> JsonTexts[text], error |-> ""]
    ELSE [ok |-> FALSE, value |-> EmptyDict,
          error |-> "Expecting value: line 1 column 1 (char 0)"]

\* A provider call: the request sent and what became of the reply.
call_provider(provider, content, reply) ==
    LET sent == [ev |-> "call", provider |-> provider, content |-> content]
    IN  IF reply.raises
        THEN [trace |-> <<sent>>, ok |-> FALSE, value |-> EmptyDict, error |-> reply.text]
        ELSE [trace |-> <<sent>>] @@ provider_loads(reply.text)

\* parse_with_ai: its result or the exception it raises, and the calls it made.
parse_with_ai(text, mode, openai_ok, anthropic_ok, reply) ==
    LET provider == get_ai_client(openai_ok, anthropic_ok)
        prompt == build_prompt(mode, text)
        selected == <<[ev |-> "select", provider |-> provider, content |-> ""]>>
        out == IF provider = "openai" THEN call_provider(provider, prompt, reply)
               ELSE IF provider = "anthropic"
               THEN call_provider(provider,
                        prompt \o "\n\nReturn ONLY valid JSON, no other text.", reply)
               ELSE [trace |-> <<>>, ok |-> FALSE, value |-> EmptyDict,
                     error |-> "No AI provider available"]
    IN  [out EXCEPT !.trace = selected \o out.trace]

\* ------------------------------------------------------------ requests
\* The generated ids a client can know: those of the POSTs answered.
KnownIds ==
    Generated(uuids) \ {r.item["id"] : r \in {f \in inflight : f.op = "db_add"}}

\* POST bodies: JSON objects.
PostBodies ==
    {[label |-> "x"]}
    \cup {[id |-> i] : i \in KnownIds}
    \cup {[id |-> i, createdAt |-> "client-time"] : i \in ClientIds}

\* The <item_id> of a URL.
UrlIds == ClientIds \cup KnownIds

\* Bodies of POST /api/parse.
Modes == {"alarm", "meeting", "mood", "inbox", "schedule", "reminder"}
Texts == {"", "wake me at 7"}
ParseBodies ==
    {EmptyDict}
    \cup {[text |-> t] : t \in Texts}
    \cup {[mode |-> m] : m \in Modes}
    \cup {[text |-> t, mode |-> m] : t \in Texts, m \in Modes}

\* create_item that sets createdAt only when the body has none.
new_item_keep_created(body, fresh, now) ==
    LET data == IF "id" \notin DOMAIN body THEN DictSet(body, "id", fresh) ELSE body
    IN  IF "createdAt" \in DOMAIN data THEN data ELSE DictSet(data, "createdAt", now)

\* create_item, lines 163-166: the item as stored.
new_item(body, fresh, now) ==
    LET data == IF "id" \notin DOMAIN body THEN DictSet(body, "id", fresh) ELSE body
    IN  DictSet(data, "createdAt", now)

Frame(op, prefix, body, item, item_id, items, n) ==
    [op |-> op, prefix |-> prefix, body |-> body, item |-> item,
     item_id |-> item_id, items |-> items, n |-> n]

\* served when the response came from no db_add or db_delete.
NoFrame == [frame |-> Frame("", "", EmptyDict, EmptyDict, "", <<>>, 0), stale |-> FALSE]

\* The collection is no longer the one frame r read.
Interleaved(r) == db_items(r.prefix) # r.items

\* posted after a write to `prefix` by frame r: an entry of a collection that a
\* stale write overwrites is marked.
MarkRaced(r) ==
    {IF e.prefix = r.prefix /\ Interleaved(r) THEN [e EXCEPT !.raced = TRUE] ELSE e
       : e \in posted}

\* GET /
index ==
    /\ resp' = Response(200, [name |-> "HabitCards API", version |-> "1.0",
                              endpoints |-> <<"/api/parse", "/api/alarms",
                                              "/api/meetings", "/api/moods",
                                              "/api/inbox", "/api/schedule">>,
                              replit_db |-> USE_REPLIT_DB])
    /\ trace' = <<>>
    /\ served' = NoFrame
    /\ UNCHANGED <<USE_REPLIT_DB, replit_db, inflight, clock, uuids, deletes, posted>>

\* parse_voice that validates the text before it checks the key.
parse_voice_response_text_first(key, body, openai_ok, anthropic_ok, reply) ==
    LET auth_error == check_auth(key)
        text == DictGet(body, "text", "")
        mode == DictGet(body, "mode", "alarm")
        result == parse_with_ai(text, mode, openai_ok, anthropic_ok, reply)
    IN  IF text = ""
        THEN [resp |-> Response(400, [error |-> "No text provided"]), trace |-> <<>>]
        ELSE IF auth_error # NoResponse THEN [resp |-> auth_error, trace |-> <<>>]
        ELSE IF result.ok
        THEN [resp |-> Response(200, result.value), trace |-> result.trace]
        ELSE [resp |-> Response(500, [error |-> result.error]), trace |-> result.trace]

\* POST /api/parse
parse_voice_response(key, body, openai_ok, anthropic_ok, reply) ==
    LET auth_error == check_auth(key)
        text == DictGet(body, "text", "")
        mode == DictGet(body, "mode", "alarm")
        result == parse_with_ai(text, mode, openai_ok, anthropic_ok, reply)
    IN  IF auth_error # NoResponse THEN [resp |-> auth_error, trace |-> <<>>]
        ELSE IF text = ""
        THEN [resp |-> Response(400, [error |-> "No text provided"]), trace |-> <<>>]
        ELSE IF result.ok
        THEN [resp |-> Response(200, result.value), trace |-> result.trace]
        ELSE [resp |-> Response(500, [error |-> result.error]), trace |-> result.trace]

parse_voice(key, body, openai_ok, anthropic_ok, reply) ==
    LET out == parse_voice_response(key, body, openai_ok, anthropic_ok, reply)
    IN  /\ resp' = out.resp
        /\ trace' = out.trace
        /\ served' = NoFrame
        /\ UNCHANGED <<USE_REPLIT_DB, replit_db, inflight, clock, uuids, deletes,
                       posted>>

\* list_items that answers 404 for a collection with no items.
list_items_response_404(prefix, key) ==
    LET auth_error == check_auth(key)
    IN  IF auth_error # NoResponse THEN auth_error
        ELSE IF db_items(prefix) = <<>> THEN Response(404, [error |-> "Not found"])
        ELSE Response(200, db_items(prefix))

\* GET /api/<prefix>
list_items_response(prefix, key) ==
    LET auth_error == check_auth(key)
    IN  IF auth_error # NoResponse THEN auth_error
        ELSE Response(200, db_items(prefix))

list_items(prefix, key) ==
    /\ resp' = list_items_response(prefix, key)
    /\ trace' = <<>>
    /\ served' = NoFrame
    /\ UNCHANGED <<USE_REPLIT_DB, replit_db, inflight, clock, uuids, deletes, posted>>

\* GET /api/<prefix>/<item_id>
get_item_response(prefix, key, item_id) ==
    LET auth_error == check_auth(key)
        item == find_item(db_items(prefix), item_id)
    IN  IF auth_error # NoResponse THEN auth_error
        ELSE IF item = EmptyDict THEN Response(404, [error |-> "Not found"])
        ELSE Response(200, item)

get_item(prefix, key, item_id) ==
    /\ resp' = get_item_response(prefix, key, item_id)
    /\ trace' = <<>>
    /\ served' = NoFrame
    /\ UNCHANGED <<USE_REPLIT_DB, replit_db, inflight, clock, uuids, deletes, posted>>

\* POST /api/<prefix>, up to db_add's read of the collection.
create_item(prefix, key, body) ==
    LET auth_error == check_auth(key)
    IN  IF auth_error # NoResponse
        THEN /\ resp' = auth_error
             /\ trace' = <<>>
             /\ served' = NoFrame
             /\ UNCHANGED <<USE_REPLIT_DB, replit_db, inflight, clock, uuids,
                            deletes, posted>>
        ELSE /\ clock' = clock + 1
             /\ clock < MaxPosts
             /\ Cardinality(inflight) < MaxInflight
             /\ uuids' = IF "id" \notin DOMAIN body THEN uuids + 1 ELSE uuids
             /\ inflight' = inflight \cup
                  {Frame("db_add", prefix, body,
                         new_item(body, uuid4(uuids + 1), isoformat(clock + 1)),
                         "", db_items(prefix), clock + 1)}
             /\ UNCHANGED <<USE_REPLIT_DB, replit_db, resp, trace, deletes, served,
                            posted>>

\* db_add that appends to the collection as it is at the write (an atomic
\* append), not to the list it read.
db_add_write_atomic(r) ==
    /\ r.op = "db_add"
    /\ replit_db' = db_set(r.prefix, json_dumps(db_add_items(db_items(r.prefix), r.item)))
    /\ inflight' = inflight \ {r}
    /\ resp' = Response(201, r.item)
    /\ trace' = <<>>
    /\ served' = [frame |-> r, stale |-> Interleaved(r)]
    /\ posted' = MarkRaced(r) \cup
                   (IF "id" \notin DOMAIN r.body
                    THEN {[prefix |-> r.prefix, body |-> r.body, item |-> r.item,
                           raced |-> FALSE]}
                    ELSE {})
    /\ UNCHANGED <<USE_REPLIT_DB, clock, uuids, deletes>>

\* db_add's db_set, and create_item's response.
db_add_write(r) ==
    /\ r.op = "db_add"
    /\ replit_db' = db_set(r.prefix, json_dumps(db_add_items(r.items, r.item)))
    /\ inflight' = inflight \ {r}
    /\ resp' = Response(201, r.item)
    /\ trace' = <<>>
    /\ served' = [frame |-> r, stale |-> Interleaved(r)]
    /\ posted' = MarkRaced(r) \cup
                   (IF "id" \notin DOMAIN r.body
                    THEN {[prefix |-> r.prefix, body |-> r.body, item |-> r.item,
                           raced |-> FALSE]}
                    ELSE {})
    /\ UNCHANGED <<USE_REPLIT_DB, clock, uuids, deletes>>

\* DELETE /api/<prefix>/<item_id>, up to db_delete's read of the collection.
delete_item(prefix, key, item_id) ==
    LET auth_error == check_auth(key)
    IN  IF auth_error # NoResponse
        THEN /\ resp' = auth_error
             /\ trace' = <<>>
             /\ served' = NoFrame
             /\ UNCHANGED <<USE_REPLIT_DB, replit_db, inflight, clock, uuids,
                            deletes, posted>>
        ELSE /\ deletes' = deletes + 1
             /\ deletes < MaxDeletes
             /\ Cardinality(inflight) < MaxInflight
             /\ inflight' = inflight \cup
                  {Frame("db_delete", prefix, EmptyDict, EmptyDict, item_id,
                         db_items(prefix), deletes + 1)}
             /\ UNCHANGED <<USE_REPLIT_DB, replit_db, resp, trace, clock, uuids,
                            served, posted>>

\* db_delete's filter and db_set, and delete_item's response.
db_delete_write(r) ==
    /\ r.op = "db_delete"
    /\ replit_db' = db_set(r.prefix, json_dumps(db_delete_items(r.items, r.item_id)))
    /\ inflight' = inflight \ {r}
    /\ resp' = Response(200, [deleted |-> TRUE])
    /\ trace' = <<>>
    /\ served' = [frame |-> r, stale |-> Interleaved(r)]
    /\ posted' = {e \in MarkRaced(r) : ~(e.prefix = r.prefix /\ id_is(e.item, r.item_id))}
    /\ UNCHANGED <<USE_REPLIT_DB, clock, uuids, deletes>>

\* ------------------------------------------------------ specifications
Init ==
    /\ USE_REPLIT_DB \in BOOLEAN
    /\ replit_db = EmptyDict
    /\ inflight = {}
    /\ resp = NoResponse
    /\ trace = <<>>
    /\ clock = 0
    /\ uuids = 0
    /\ deletes = 0
    /\ served = NoFrame
    /\ posted = {}

\* The CRUD routes of the six collections as clients that hold the key use
\* them, under any interleaving of their requests; the parse endpoint is called
\* with no provider configured.
Next ==
    \/ index
    \/ \E reply \in {r \in ProviderReplies : r.raises} :
          parse_voice(API_KEY, [text |-> "wake me at 7"], FALSE, FALSE, reply)
    \/ \E prefix \in Collections : list_items(prefix, API_KEY)
    \/ \E prefix \in Collections, item_id \in UrlIds : get_item(prefix, API_KEY, item_id)
    \/ \E prefix \in Collections, body \in PostBodies :
          create_item(prefix, API_KEY, body)
    \/ \E r \in inflight : db_add_write(r)
    \/ \E prefix \in Collections, item_id \in UrlIds :
          delete_item(prefix, API_KEY, item_id)
    \/ \E r \in inflight : db_delete_write(r)

Spec == Init /\ [][Next]_vars

\* The request bodies and the ids tried with a key: every one with the right
\* key, one with a key the gate turns away.
BodiesFor(key) == IF key = API_KEY THEN PostBodies ELSE {[label |-> "x"]}
IdsFor(key) == IF key = API_KEY THEN UrlIds ELSE ClientIds

\* A request the gate lets through may start a db_add or db_delete.
GateBudget(key) == key = API_KEY => clock + deletes < MaxGateWrites

\* Every protected endpoint under every header value, with the right key, a
\* wrong key and no key.
NextGate ==
    \/ \E key \in HeaderValues, reply \in {r \in ProviderReplies : r.raises} :
          parse_voice(key, [text |-> "wake me at 7"], FALSE, FALSE, reply)
    \/ \E prefix \in Collections, key \in HeaderValues : list_items(prefix, key)
    \/ \E prefix \in Collections, key \in HeaderValues : \E item_id \in IdsFor(key) :
          get_item(prefix, key, item_id)
    \/ \E prefix \in Collections, key \in HeaderValues : \E body \in BodiesFor(key) :
          GateBudget(key) /\ create_item(prefix, key, body)
    \/ \E r \in inflight : db_add_write(r)
    \/ \E prefix \in Collections, key \in HeaderValues : \E item_id \in IdsFor(key) :
          GateBudget(key) /\ delete_item(prefix, key, item_id)
    \/ \E r \in inflight : db_delete_write(r)

SpecGate == Init /\ [][NextGate]_vars

\* The parse endpoint under every request body, provider configuration and
\* provider reply, beside POSTs to one collection.
NextParse ==
    \/ \E key \in HeaderValues, body \in ParseBodies, openai_ok \in BOOLEAN,
          anthropic_ok \in BOOLEAN, reply \in ProviderReplies :
          parse_voice(key, body, openai_ok, anthropic_ok, reply)
    \/ \E body \in PostBodies : create_item("alarms", API_KEY, body)
    \/ \E r \in inflight : db_add_write(r)

SpecParse == Init /\ [][NextParse]_vars

\* ---------------------------------------------------------- properties
Unauthorized == Response(401, [error |-> "Unauthorized"])
NotFound == Response(404, [error |-> "Not found"])
Deleted == Response(200, [deleted |-> TRUE])

\* The step answered 401 and touched neither a collection nor a call in flight.
Rejected == resp' = Unauthorized /\ replit_db' = replit_db /\ inflight' = inflight

\* The step entered db_add / db_delete for the collection.
Entered(prefix, op) == \E f \in inflight' \ inflight : f.prefix = prefix /\ f.op = op

BadKeys == HeaderValues \ {API_KEY}

\* The stored blob of a collection, <<>> when its key was never written.
Blob(prefix) == IF prefix \in DOMAIN replit_db THEN replit_db[prefix] ELSE <<>>

RoundTrip(e) ==
    LET r == get_item_response(e.prefix, API_KEY, e.item["id"])
    IN  /\ r.status = 200
        /\ e.item["id"] # ""
        /\ r.body["id"] = e.item["id"]
        /\ r.body["createdAt"] = e.item["createdAt"]
        /\ \A k \in DOMAIN e.body : k \in DOMAIN r.body /\ r.body[k] = e.body[k]

\* C2 as stated: after a POST without an id returned 201, GET by the returned id
\* returns the item (client fields, id, createdAt) as long as no DELETE of that
\* id came in between.
C2_RoundTrip_AsStated == \A e \in posted : RoundTrip(e)

\* C2, amended: the same, as long as neither a DELETE of that id nor a stale
\* write (by a request that read the collection before another write to it)
\* came in between.
C2_RoundTrip == \A e \in posted : ~e.raced => RoundTrip(e)

\* C2 witness: a GET returned a posted item out of a collection of several.
C2_Witness ==
    \E e \in posted :
        /\ ~e.raced
        /\ served = NoFrame
        /\ resp = Response(200, e.item)
        /\ Len(db_items(e.prefix)) > 1

\* No item of the list has the id.
Absent(items, item_id) == \A n \in 1..Len(items) : ~id_is(items[n], item_id)

\* The list with every item of that id taken out, the others in their order.
RECURSIVE Without(_, _)
Without(items, item_id) ==
    IF items = <<>> THEN <<>>
    ELSE IF "id" \in DOMAIN Head(items) /\ Head(items)["id"] = item_id
    THEN Without(Tail(items), item_id)
    ELSE <<Head(items)>> \o Without(Tail(items), item_id)

\* C3 as stated: a DELETE of an id that no item of the collection has answers
\* {"deleted": true} like any DELETE and leaves the collection as it was.
C3_DeleteAbsent_AsStated ==
    [][\A r \in inflight \ inflight' :
         db_delete_write(r) =>
           /\ resp' = Deleted
           /\ (Absent(r.items, r.item_id) /\ Absent(db_items(r.prefix), r.item_id))
                => db_items(r.prefix)' = db_items(r.prefix)]_vars

\* C3, amended: a DELETE answers {"deleted": true}, status 200, whether or not
\* the id exists; run without interleaving, a DELETE of an id that no item has
\* leaves the collection as it was, and after any DELETE run without
\* interleaving the same DELETE again would change nothing.
C3_DeleteAbsent ==
    [][\A r \in inflight \ inflight' :
         db_delete_write(r) =>
           /\ resp' = Deleted
           /\ ~Interleaved(r) =>
                /\ Absent(r.items, r.item_id) => db_items(r.prefix)' = db_items(r.prefix)
                /\ db_delete_items(db_items(r.prefix)', r.item_id) = db_items(r.prefix)']_vars

\* C3 witness: a DELETE of an id that no item had was answered, and the
\* collection still holds its items.
C3_Witness ==
    /\ served.frame.op = "db_delete"
    /\ ~served.stale
    /\ resp = Deleted
    /\ served.frame.items # <<>>
    /\ Absent(served.frame.items, served.frame.item_id)
    /\ db_items(served.frame.prefix) = served.frame.items

\* C4: a mutation writes back the list it read, changed, whatever the
\* collection holds by then: no lock, no compare-and-swap.  So two POSTs that
\* both read before either writes leave only the last writer's item.
C4_LastWriteWins ==
    [][\A r \in inflight \ inflight' :
         /\ db_add_write(r) =>
              db_items(r.prefix)' = Append(r.items, r.item)
         /\ db_delete_write(r) =>
              db_items(r.prefix)' = Without(r.items, r.item_id)]_vars

\* C4 witness: two POSTs to one collection were both answered 201, nothing was
\* deleted, and the collection holds the item of one of them only.
C4_LostUpdate ==
    \E e1 \in posted, e2 \in posted :
        /\ e1 # e2
        /\ e1.prefix = e2.prefix
        /\ deletes = 0
        /\ inflight = {}
        /\ resp = Response(201, e2.item)
        /\ db_items(e1.prefix) = <<e2.item>>

\* The outcome the parse endpoint owes a request, check by check: the response
\* and the provider events (selection, call) in their order.
ParseOutcome(key, body, openai_ok, anthropic_ok, reply) ==
    LET text == IF "text" \in DOMAIN body THEN body["text"] ELSE ""
        Out(status, b, events) == [status |-> status, body |-> b, events |-> events]
    IN  IF key # API_KEY THEN Out(401, [error |-> "Unauthorized"], <<>>)
        ELSE IF text = "" THEN Out(400, [error |-> "No text provided"], <<>>)
        ELSE IF ~openai_ok /\ ~anthropic_ok
        THEN Out(500, [error |-> "No AI provider available"], <<"select">>)
        ELSE IF reply.raises THEN Out(500, [error |-> reply.text], <<"select", "call">>)
        ELSE IF reply.text \notin DOMAIN JsonTexts
        THEN Out(500, [error |-> "Expecting value: line 1 column 1 (char 0)"],
                 <<"select", "call">>)
        ELSE Out(200, JsonTexts[reply.text], <<"select", "call">>)

C6_ListEmpty ==
    \A prefix \in Collections :
        (prefix \notin DOMAIN replit_db \/ replit_db[prefix] = DefaultBlob)
            => list_items_response(prefix, API_KEY) = Response(200, <<>>)

\* C6 witness: a list was answered 200 [] when every collection is empty, one of
\* them because its items have all been deleted, the others never written.
C6_Witness ==
    /\ resp = Response(200, <<>>)
    /\ deletes > 0
    /\ inflight = {}
    /\ \E prefix \in Collections :
         prefix \in DOMAIN replit_db /\ replit_db[prefix] = DefaultBlob
    /\ \E prefix \in Collections : prefix \notin DOMAIN replit_db
    /\ \A prefix \in Collections : db_items(prefix) = <<>>

\* The description the mode of a parse body selects.
OwnModes == {"alarm", "meeting", "mood", "inbox", "schedule"}
ModeSchema(body) ==
    IF "mode" \in DOMAIN body /\ body["mode"] \in OwnModes
    THEN schemas[body["mode"]]
    ELSE schemas["alarm"]

\* The prompt owed to a parse body: base instruction, description, user text.
OwedPrompt(body) ==
    base \o "\n\n" \o ModeSchema(body) \o "\n\nVoice input: \"" \o body["text"] \o "\""

\* C7: the five modes have five different descriptions; the prompt a provider
\* receives for a request is the base instruction, then the description of the
\* request's mode if it is one of the five and the alarm description otherwise
\* (unknown mode, or no mode in the body), then the user's text.
C7_PromptTemplate ==
    [](/\ Cardinality({schemas[m] : m \in OwnModes}) = 5
       /\ \A m \in Modes, t \in Texts :
            build_prompt(m, t) = OwedPrompt([mode |-> m, text |-> t])
       /\ \A body \in {b \in ParseBodies : "text" \in DOMAIN b /\ b["text"] # ""},
             reply \in ProviderReplies :
            LET openai == parse_voice_response(API_KEY, body, TRUE, FALSE, reply).trace
                anthropic == parse_voice_response(API_KEY, body, FALSE, TRUE, reply).trace
            IN  /\ Len(openai) = 2 /\ Len(anthropic) = 2
                /\ openai[2].content = OwedPrompt(body)
                /\ anthropic[2].content =
                     OwedPrompt(body) \o "\n\nReturn ONLY valid JSON, no other text.")

\* C7 witness: a provider was called with the mood prompt.
C7_Witness ==
    /\ Len(trace) = 2
    /\ trace[2].provider = "openai"
    /\ trace[2].content = OwedPrompt([mode |-> "mood", text |-> "wake me at 7"])
    /\ resp.status = 200

\* C8: a POST whose db_add was not interleaved answers 201 and leaves the
\* collection as it was with the response body appended; the item has the
\* caller's id when the body has one, else a non-empty id that no item of the
\* collection had, the caller's other fields, and the server's createdAt in
\* place of the caller's.
C8_PostAppends ==
    [][\A r \in inflight \ inflight' :
         (db_add_write(r) /\ ~Interleaved(r)) =>
           /\ resp'.status = 201
           /\ db_items(r.prefix)' = Append(db_items(r.prefix), resp'.body)
           /\ IF "id" \in DOMAIN r.body
              THEN resp'.body["id"] = r.body["id"]
              ELSE resp'.body["id"] # "" /\ Absent(db_items(r.prefix), resp'.body["id"])
           /\ resp'.body["createdAt"] = isoformat(r.n)
           /\ "createdAt" \in DOMAIN r.body
                => resp'.body["createdAt"] # r.body["createdAt"]
           /\ \A k \in DOMAIN r.body \ {"id", "createdAt"} :
                resp'.body[k] = r.body[k]]_vars

\* C8 witness: a POST with the caller's id and createdAt was answered, not
\* interleaved, and its item stands last in a collection of two.
C8_Witness ==
    /\ served.frame.op = "db_add"
    /\ ~served.stale
    /\ "createdAt" \in DOMAIN served.frame.body
    /\ resp.status = 201
    /\ resp.body["id"] \in ClientIds
    /\ Len(db_items(served.frame.prefix)) = 2
    /\ db_items(served.frame.prefix)[2] = resp.body

\* C9: a DELETE whose db_delete was not interleaved leaves the collection
\* without any item of that id, the others in their order, and GET by that id
\* answers 404; a GET by an id goes from 404 to an item only by a POST that
\* stores an item of that id, or by a stale write.
C9_DeleteRemovesAll ==
    [][\A r \in inflight \ inflight' :
         /\ (db_delete_write(r) /\ ~Interleaved(r)) =>
              /\ db_items(r.prefix)' = Without(db_items(r.prefix), r.item_id)
              /\ get_item_response(r.prefix, API_KEY, r.item_id)' = NotFound
         /\ \/ Interleaved(r)
            \/ \A item_id \in ClientIds \cup Generated(uuids) :
                 \/ db_add_write(r) /\ id_is(r.item, item_id)
                 \/ get_item_response(r.prefix, API_KEY, item_id) # NotFound
                 \/ get_item_response(r.prefix, API_KEY, item_id)' = NotFound]_vars

\* C9 witness: a DELETE, not interleaved, was answered for a collection that
\* held two items of that id, and none is left.
C9_Witness ==
    /\ served.frame.op = "db_delete"
    /\ ~served.stale
    /\ resp = Deleted
    /\ Len(served.frame.items) = 2
    /\ \A n \in 1..2 : id_is(served.frame.items[n], served.frame.item_id)
    /\ db_items(served.frame.prefix) = <<>>
    /\ get_item_response(served.frame.prefix, API_KEY, served.frame.item_id) = NotFound

\* C10: only six keys are ever written; a collection's blob changes only in the
\* step that writes for a POST or DELETE of that collection, so every other
\* collection keeps its blob, and GET /, GET list, GET by id, POST /api/parse
\* and the reads of db_add and db_delete change no blob.
C10_Isolation ==
    [][/\ DOMAIN replit_db' \subseteq Collections
       /\ \A prefix \in Collections :
            Blob(prefix)' # Blob(prefix) =>
              \E r \in inflight \ inflight' :
                  r.prefix = prefix /\ (db_add_write(r) \/ db_delete_write(r))
       /\ inflight \ inflight' = {} => replit_db' = replit_db]_vars

\* C10 witness: a parse request was answered while two collections hold items.
C10_Witness ==
    /\ resp.status = 500
    /\ served = NoFrame
    /\ \E p1 \in Collections, p2 \in Collections :
         p1 # p2 /\ db_items(p1) # <<>> /\ db_items(p2) # <<>>

=============================================================================
